---------------------------- MODULE Spec2Model ----------------------------
(***************************************************************************)
(* Model of the sales dashboard's normalisation and geo-aggregation code:  *)
(*   src/utils.py  _to_number, _extract_latlon, load_sales_csv,            *)
(*                 aggregate_geo_clusters                                  *)
(*   src/app.py    the filter / aggregation part of the Streamlit script   *)
(*                                                                         *)
(* Text is a sequence of one-character strings.  A parsed float is kept    *)
(* as an exact decimal [m, e] meaning m / 10^e with no trailing zero, so   *)
(* equal floats are equal records.  Coordinates are fixed-point integers   *)
(* counting units of 10^-CoordScale degrees.  An optional value (one that  *)
(* may be Python's None, NaN or NaT) is None or Some(v).                   *)
(***************************************************************************)
EXTENDS Integers, Sequences, FiniteSets, TLC

VARIABLES
    pc,          \* which call of the scenario has been made
    numMarker,   \* _to_number scenario: currency marker put before the text
    numBody,     \* _to_number scenario: the text after the marker (or None)
    numOut,      \* _to_number scenario: the returned value
    geoVal,      \* _extract_latlon scenario: the Georeferenciado text
    geoOut,      \* _extract_latlon scenario: the returned (lat, lon)
    table,       \* aggregate_geo_clusters scenario: the input DataFrame
    aggs,        \* aggregate_geo_clusters scenario: result per precision
    loaded,      \* app scenario: the table as load_sales_csv returned it
    df,          \* app scenario: the module-level df object
    filtered,    \* app scenario: the object `filtered` names after a run
    cluster_agg, \* app scenario: cluster_agg after a run
    widgets      \* app scenario: the sidebar values of the last run

vars == <<pc, numMarker, numBody, numOut, geoVal, geoOut, table, aggs,
          loaded, df, filtered, cluster_agg, widgets>>

None == <<>>
Some(v) == <<v>>
Present(o) == o # None
Val(o) == o[1]

\* The one element of a one-element set: {e(x) : x \in {v}} computes v once
\* and names it x in e.
The(S) == CHOOSE x \in S : TRUE

(***************************************************************************)
(* Bounds of the model.                                                    *)
(***************************************************************************)
MaxNumLen == 3
MaxRows == 3
MaxAppRows == 2
CoordScale == 4
MoneyScale == 2

(***************************************************************************)
(* Python str primitives.                                                  *)
(***************************************************************************)
Digits == <<"0", "1", "2", "3", "4", "5", "6", "7", "8", "9">>

IsDigit(c) == \E i \in 1..10 : Digits[i] = c

DigitVal(c) == (CHOOSE i \in 1..10 : Digits[i] = c) - 1

\* str.strip(): whitespace of the model's alphabet is the blank.
RECURSIVE LStrip(_)
LStrip(s) == IF s # <<>> /\ Head(s) = " " THEN LStrip(Tail(s)) ELSE s

RECURSIVE RStrip(_)
RStrip(s) ==
    IF s # <<>> /\ s[Len(s)] = " " THEN RStrip(SubSeq(s, 1, Len(s) - 1)) ELSE s

Strip(s) == RStrip(LStrip(s))

StartsWith(s, p) == Len(p) <= Len(s) /\ SubSeq(s, 1, Len(p)) = p

\* str.replace(old, new): leftmost non-overlapping occurrences, old non-empty.
RECURSIVE Replace(_, _, _)
Replace(s, old, new) ==
    IF s = <<>> THEN <<>>
    ELSE IF StartsWith(s, old)
         THEN new \o Replace(SubSeq(s, Len(old) + 1, Len(s)), old, new)
         ELSE <<Head(s)>> \o Replace(Tail(s), old, new)

\* str.count(ch) for a one-character ch.
Count(s, ch) == Cardinality({i \in 1..Len(s) : s[i] = ch})

Contains(s, ch) == \E i \in 1..Len(s) : s[i] = ch

RECURSIVE Pow10(_)
Pow10(n) == IF n = 0 THEN 1 ELSE 10 * Pow10(n - 1)

RECURSIVE DigitsValue(_)
DigitsValue(s) ==
    IF s = <<>> THEN 0
    ELSE 10 * DigitsValue(SubSeq(s, 1, Len(s) - 1)) + DigitVal(s[Len(s)])

AllDigits(s) == \A i \in 1..Len(s) : IsDigit(s[i])

Dec(m, e) == [m |-> m, e |-> e]

RECURSIVE Normalize(_, _)
Normalize(m, e) ==
    IF e > 0 /\ m % 10 = 0 THEN Normalize(m \div 10, e - 1) ELSE Some(Dec(m, e))

\* float(str) on the model's alphabet (no exponent, underscore, "inf" or
\* "nan" can be spelled): surrounding blanks are ignored, then
\*   [+-] digits [. [digits]]   or   [+-] . digits
\* anything else raises ValueError, modelled as None.
Float(str) ==
    LET t == Strip(str)
        signed == t # <<>> /\ Head(t) \in {"-", "+"}
        u == IF signed THEN Tail(t) ELSE t
        sgn == IF signed /\ Head(t) = "-" THEN -1 ELSE 1
        dots == {i \in 1..Len(u) : u[i] = "."}
        dot == IF dots = {} THEN Len(u) + 1 ELSE CHOOSE i \in dots : TRUE
        ip == SubSeq(u, 1, dot - 1)
        fp == SubSeq(u, dot + 1, Len(u))
    IN  IF Cardinality(dots) <= 1 /\ AllDigits(ip) /\ AllDigits(fp)
           /\ Len(ip) + Len(fp) > 0
        THEN Normalize(sgn * (DigitsValue(ip) * Pow10(Len(fp)) + DigitsValue(fp)),
                       Len(fp))
        ELSE None

(***************************************************************************)
(* utils._to_number                                                        *)
(***************************************************************************)
CurrencyMarkers ==
    << <<"$">>, <<"U", "S", "$">>, <<"B", "s">>, <<"B", "s", ".">>, <<"€">>, <<"¢">> >>

\* for ch in [...]: s = s.replace(ch, ''), in list order.
RECURSIVE StripMarkers(_, _)
StripMarkers(s, i) ==
    IF i > Len(CurrencyMarkers) THEN s
    ELSE StripMarkers(Replace(s, CurrencyMarkers[i], <<>>), i + 1)

SeparatorsResolved(s) ==
    IF Count(s, ",") = 1 /\ Count(s, ".") > 0
    THEN Replace(Replace(s, <<".">>, <<>>), <<",">>, <<".">>)
    ELSE IF Count(s, ",") = 1 /\ Count(s, ".") = 0
         THEN Replace(s, <<",">>, <<".">>)
         ELSE Replace(s, <<",">>, <<>>)

ToNumber(s) ==
    IF s = None THEN None
    ELSE LET s1 == Strip(Val(s))
             s2 == StripMarkers(s1, 1)
             s3 == Replace(s2, <<" ">>, <<>>)
         IN  Float(SeparatorsResolved(s3))

(***************************************************************************)
(* Scenario: one call of _to_number on a text drawn from NumberInputs.     *)
(***************************************************************************)
NumChars == {"1", "5", ",", "."}

PlainNums == UNION {[1..n -> NumChars] : n \in 1..MaxNumLen}

NoMarker == <<>>

MarkerSet == {CurrencyMarkers[i] : i \in 1..Len(CurrencyMarkers)}

DocExamples ==
    { <<"1", ".", "2", "3", "4", ",", "5", "6">>,
      <<"1", "2", "3", "4", ".", "5", "6">>,
      <<"$", "1", ",", "2", "3", "4", ".", "5", "6">>,
      <<"1", " ", "2", "3", "4", ",", "5", "6">>,
      <<"a", "b", "c">> }

NumberArg == IF numBody = None THEN None ELSE Some(numMarker \o Val(numBody))

NumberInit ==
    /\ pc = "input"
    /\ \/ numMarker = NoMarker /\ numBody \in {Some(x) : x \in DocExamples} \cup {None}
       \/ numMarker \in MarkerSet \cup {NoMarker}
          /\ numBody \in {Some(x) : x \in PlainNums}
    /\ numOut = None
    /\ geoVal = None /\ geoOut = None
    /\ table = None /\ aggs = None
    /\ loaded = None /\ df = None /\ filtered = None
    /\ cluster_agg = None /\ widgets = None

ToNumberCall ==
    /\ pc = "input"
    /\ numOut' = ToNumber(NumberArg)
    /\ pc' = "done"
    /\ UNCHANGED <<numMarker, numBody, geoVal, geoOut, table, aggs,
                   loaded, df, filtered, cluster_agg, widgets>>

NumberNext == ToNumberCall

SpecNumber == NumberInit /\ [][NumberNext]_vars

\* C1: _to_number returns the documented value for each documented example
\* text: "1.234,56", "1234.56", "$1,234.56" and "1 234,56" all give 1234.56
\* and "abc" gives None.
DocExamplesAsDocumented ==
    (pc = "done" /\ numMarker = NoMarker /\ Present(numBody)
        /\ Val(numBody) \in DocExamples)
    => numOut = (IF Val(numBody) = <<"a", "b", "c">> THEN None
                 ELSE Some(Dec(123456, 2)))

\* C8: a currency marker of the fixed set put before a plain numeric text
\* does not change the value _to_number returns for that text.
MarkersAreStripped ==
    (pc = "done" /\ numMarker \in MarkerSet /\ Present(numBody)
        /\ Val(numBody) \in PlainNums)
    => numOut = ToNumber(numBody)

(***************************************************************************)
(* utils._extract_latlon                                                   *)
(***************************************************************************)
\* str.split(sep) for a one-character sep: the fields between separators.
RECURSIVE SplitOn(_, _)
SplitOn(s, sep) ==
    LET hits == {i \in 1..Len(s) : s[i] = sep}
    IN  IF hits = {} THEN <<s>>
        ELSE LET i == CHOOSE j \in hits : \A k \in hits : j <= k
             IN  <<SubSeq(s, 1, i - 1)>> \o SplitOn(SubSeq(s, i + 1, Len(s)), sep)

\* str.split(): the maximal runs of non-blank characters.
RECURSIVE SplitWs(_)
SplitWs(s) ==
    LET t == LStrip(s)
        blanks == {i \in 1..Len(t) : t[i] = " "}
    IN  IF t = <<>> THEN <<>>
        ELSE IF blanks = {} THEN <<t>>
        ELSE LET i == CHOOSE j \in blanks : \A k \in blanks : j <= k
             IN  <<SubSeq(t, 1, i - 1)>> \o SplitWs(SubSeq(t, i + 1, Len(t)))

NoLatLon == <<None, None>>

ExtractLatLon(val) ==
    IF val = None \/ ~Contains(Val(val), ",") THEN NoLatLon
    ELSE LET parts == SplitOn(Val(val), ",")
             byComma == Len(parts) = 2 /\ Present(Float(parts[1]))
                            /\ Present(Float(parts[2]))
             ws == SplitWs(Val(val))
         IN  IF byComma THEN <<Float(parts[1]), Float(parts[2])>>
             ELSE IF Len(ws) >= 2 /\ Present(Float(ws[1])) /\ Present(Float(ws[2]))
                  THEN <<Float(ws[1]), Float(ws[2])>>
                  ELSE NoLatLon

(***************************************************************************)
(* Scenario: one call of _extract_latlon on a text drawn from GeoInputs.   *)
(***************************************************************************)
FloatTokens ==
    { <<"1", "0", ".", "5">>, <<"-", "6", "6", ".", "9">>, <<"7">>, <<"x">> }

GeoSeps == { <<",">>, <<" ">>, <<",", " ">>, <<" ", ",", " ">>, <<",", ",">> }

GeoTails == { <<>>, <<" ", ",">>, <<",", "1">> }

NotCoords == <<"n", "o", "t", "-", "c", "o", "o", "r", "d", "s">>

GeoInputs ==
    {a \o sep \o b \o tail :
        a \in FloatTokens, sep \in GeoSeps, b \in FloatTokens, tail \in GeoTails}
    \cup {<<>>, NotCoords}

LatLonInit ==
    /\ pc = "input"
    /\ geoVal \in {Some(x) : x \in GeoInputs} \cup {None}
    /\ geoOut = None
    /\ numMarker = NoMarker /\ numBody = None /\ numOut = None
    /\ table = None /\ aggs = None
    /\ loaded = None /\ df = None /\ filtered = None
    /\ cluster_agg = None /\ widgets = None

ExtractLatLonCall ==
    /\ pc = "input"
    /\ geoOut' = ExtractLatLon(geoVal)
    /\ pc' = "done"
    /\ UNCHANGED <<numMarker, numBody, numOut, geoVal, table, aggs,
                   loaded, df, filtered, cluster_agg, widgets>>

LatLonNext == ExtractLatLonCall

SpecLatLon == LatLonInit /\ [][LatLonNext]_vars

NumericTokens == {t \in FloatTokens : Present(Float(t))}

\* C2: for float tokens a and b, both "a,b" and "a b" give (a, b); the empty
\* text and "not-coords" give (None, None).
CommaAndBlankFormsAccepted ==
    pc = "done" =>
        /\ \A a \in NumericTokens, b \in NumericTokens :
              (geoVal = Some(a \o <<",">> \o b) \/ geoVal = Some(a \o <<" ">> \o b))
              => geoOut = <<Float(a), Float(b)>>
        /\ (geoVal = Some(<<>>) \/ geoVal = Some(NotCoords)) => geoOut = NoLatLon

(***************************************************************************)
(* DataFrames.  A frame is [cols, rows]: the column names and the rows in  *)
(* order, each row a function from column name to value.  The heap is the  *)
(* sequence of the frame objects that exist; a reference is an index into  *)
(* it, so that an assignment through one name is seen through every other  *)
(* name of the same object.                                                *)
(***************************************************************************)
Frame(cols, rows) == [cols |-> cols, rows |-> rows]

\* The function f on 1..n as a sequence, and the function f on the set of
\* names d as a row: the same values, computed once.
RECURSIVE SeqOf(_, _)
SeqOf(f, n) == IF n = 0 THEN <<>> ELSE Append(SeqOf(f, n - 1), f[n])

RECURSIVE RowOf(_, _)
RowOf(f, d) ==
    IF d = {} THEN <<>>
    ELSE LET c == CHOOSE x \in d : TRUE IN (c :> f[c]) @@ RowOf(f, d \ {c})

RECURSIVE SelectSeq2(_, _, _)
SelectSeq2(rows, keep, i) ==
    IF i > Len(rows) THEN <<>>
    ELSE (IF keep[i] THEN <<rows[i]>> ELSE <<>>) \o SelectSeq2(rows, keep, i + 1)

\* A new object is appended to the heap; its reference is the new length.
Alloc(h, f) == [heap |-> Append(h, f), ref |-> Len(h) + 1]

\* DataFrame.copy(): a new object with the same content.
DfCopy(h, ref) == Alloc(h, h[ref])

\* df[mask]: boolean indexing, a new object holding the rows whose mask is TRUE.
DfSelect(h, ref, mask) ==
    Alloc(h, Frame(h[ref].cols, SelectSeq2(h[ref].rows, mask, 1)))

\* df[[c1, c2, ...]]: a new object holding the listed columns.
DfColumns(h, ref, cols) ==
    Alloc(h, Frame(cols, SeqOf([i \in 1..Len(h[ref].rows) |->
                                   RowOf(h[ref].rows[i], cols)],
                               Len(h[ref].rows))))

\* df.dropna(subset=...): a new object without the rows missing one of subset.
DfDropna(h, ref, subset) ==
    DfSelect(h, ref, [i \in 1..Len(h[ref].rows) |->
                         \A c \in subset : Present(h[ref].rows[i][c])])

\* df[col] = values: in place, on the object ref names.
DfAssign(h, ref, col, values) ==
    [h EXCEPT ![ref] =
        Frame(@.cols \cup {col},
              SeqOf([i \in 1..Len(@.rows) |-> (col :> values[i]) @@ @.rows[i]],
                    Len(@.rows)))]

(***************************************************************************)
(* round(x, ndigits) on a coordinate.  The integer n stands for the double *)
(* nearest to n / 10^CoordScale, which is what float() makes of the text   *)
(* of that decimal.  round rounds the value of the double, so a decimal    *)
(* halfway between two multiples of 10^-ndigits goes to the side its       *)
(* double lies on, and to the even multiple only when the double is the    *)
(* decimal exactly.                                                        *)
(***************************************************************************)
Abs(n) == IF n < 0 THEN -n ELSE n

RECURSIVE Pow2(_)
Pow2(k) == IF k = 0 THEN 1 ELSE 2 * Pow2(k - 1)

\* The k for which a * 2^k / 10^CoordScale lies in [2^52, 2^53), a > 0: the
\* 53-bit mantissa of the double is that quotient rounded to an integer.
RECURSIVE MantissaShift(_, _)
MantissaShift(a, k) ==
    LET d == Pow10(CoordScale) IN
    IF a >= d
    THEN IF (a \div d) < Pow2(53 - k) THEN k ELSE MantissaShift(a, k - 1)
    ELSE IF a * Pow2(k - 52) >= d THEN k ELSE MantissaShift(a, k + 1)

\* From rb = <<r, bit>>, the remainder and the parity of the quotient of
\* r * 2^k by 10^CoordScale, eight doublings at a time.
RECURSIVE ShiftMod(_, _)
ShiftMod(rb, k) ==
    IF k = 0 THEN rb
    ELSE LET d == Pow10(CoordScale)
             step == IF k >= 8 THEN 8 ELSE k
         IN  The({ShiftMod(<<p % d, (p \div d) % 2>>, k - step) :
                     p \in {rb[1] * Pow2(step)}})

\* Where the double of a / 10^CoordScale lies, a > 0: 1 above the decimal,
\* -1 below it, 0 on it (the mantissa rounds half to even).
DoubleSide(a) ==
    LET d == Pow10(CoordScale) IN
    The({IF rb[1] = 0 THEN 0
         ELSE IF 2 * rb[1] < d THEN -1
         ELSE IF 2 * rb[1] > d THEN 1
         ELSE IF rb[2] = 0 THEN -1 ELSE 1 :
            rb \in {ShiftMod(<<a % d, (a \div d) % 2>>, MantissaShift(a, 52))}})

RoundTo(n, ndigits) ==
    IF ndigits >= CoordScale \/ n = 0 THEN n
    ELSE LET a == Abs(n)
             q == Pow10(CoordScale - ndigits)
             r == a % q
             lo == a - r
             up == IF 2 * r # q THEN 2 * r > q
                   ELSE LET side == DoubleSide(a)
                        IN  side = 1 \/ (side = 0 /\ (lo \div q) % 2 = 1)
             mag == IF up THEN lo + q ELSE lo
         IN  IF n < 0 THEN -mag ELSE mag

(***************************************************************************)
(* utils.aggregate_geo_clusters                                            *)
(***************************************************************************)
ClusterKeyInverted(lat, lon, precision) ==
    <<RoundTo(lat, CoordScale - precision), RoundTo(lon, CoordScale - precision)>>

\* (round(float(r['lat']), int(precision)), round(float(r['lon']), int(precision)))
ClusterKey(lat, lon, precision) ==
    <<RoundTo(lat, precision), RoundTo(lon, precision)>>

\* Tuple order: by the first component, then by the second.
KeyLess(a, b) == a[1] < b[1] \/ (a[1] = b[1] /\ a[2] < b[2])

RECURSIVE SortedKeys(_)
SortedKeys(keys) ==
    IF keys = {} THEN <<>>
    ELSE LET k == CHOOSE x \in keys : \A y \in keys : x = y \/ KeyLess(x, y)
         IN  <<k>> \o SortedKeys(keys \ {k})

RECURSIVE SumOf(_, _)
SumOf(rows, col) ==
    IF rows = <<>> THEN 0
    ELSE (IF Present(Head(rows)[col]) THEN Val(Head(rows)[col]) ELSE 0)
         + SumOf(Tail(rows), col)

RECURSIVE MaxOf(_, _)
MaxOf(rows, col) ==
    IF rows = <<>> THEN 0
    ELSE LET rest == MaxOf(Tail(rows), col)
             v == IF Present(Head(rows)[col]) THEN Val(Head(rows)[col]) ELSE 0
         IN  IF v > rest THEN v ELSE rest

\* 'count': the number of non-missing values of the column.
CountOf(rows, col) == Cardinality({i \in 1..Len(rows) : Present(rows[i][col])})

\* 'mean' of a column without missing values, kept exact as sum / n.
MeanOf(rows, col) == [sum |-> SumOf(rows, col), n |-> Len(rows)]

GroupRevenueMax(rows, col) == MaxOf(rows, col)

\* revenue=(revenue_col, 'sum'): missing values are skipped, no value gives 0.
GroupRevenue(rows, col) == SumOf(rows, col)

\* tmp.groupby('cluster').agg(...).reset_index(): one row per key, keys ascending.
GroupByCluster(tmp, revenue_col) ==
    The({LET group(k) == SelectSeq2(rows,
                             [i \in 1..Len(rows) |-> rows[i]["cluster"] = k], 1)
         IN  The({SeqOf([j \in 1..Len(keys) |->
                            The({[cluster   |-> keys[j],
                                  latitude  |-> MeanOf(g, "lat"),
                                  longitude |-> MeanOf(g, "lon"),
                                  revenue   |-> GroupRevenue(g, revenue_col),
                                  count     |-> CountOf(g, revenue_col)] :
                                    g \in {group(keys[j])}})],
                        Len(keys)) :
                    keys \in {SortedKeys({rows[i]["cluster"] :
                                             i \in 1..Len(rows)})}}) :
            rows \in {tmp.rows}})

Orderings(n) == {f \in [1..n -> 1..n] : \A i, j \in 1..n : f[i] = f[j] => i = j}

SortValuesAscending(agg) ==
    {SeqOf([i \in 1..Len(agg) |-> agg[f[i]]], Len(agg)) : f \in
        {g \in Orderings(Len(agg)) :
            \A i, j \in 1..Len(agg) : i < j => agg[g[i]].revenue <= agg[g[j]].revenue}}

\* agg.sort_values('revenue', ascending=False): the default kind is quicksort,
\* which is not stable, so rows of equal revenue may come out in any order.
SortValues(agg) ==
    {SeqOf([i \in 1..Len(agg) |-> agg[f[i]]], Len(agg)) : f \in
        {g \in Orderings(Len(agg)) :
            \A i, j \in 1..Len(agg) : i < j => agg[g[i]].revenue >= agg[g[j]].revenue}}

\* The call up to the grouping: [heap, agg], heap holding the objects made.
AggregateGrouped(h, ref, precision, revenue_col) ==
    IF h[ref].rows = <<>> \/ ~({"lat", "lon"} \subseteq h[ref].cols)
    THEN [heap |-> h, agg |-> <<>>]
    ELSE The({
           IF tmp0.heap[tmp0.ref].rows = <<>>
           THEN [heap |-> tmp0.heap, agg |-> <<>>]
           ELSE The({
                  LET rows == tmp.heap[tmp.ref].rows IN
                  The({[heap |-> h2,
                        agg |-> GroupByCluster(h2[tmp.ref], revenue_col)] :
                          h2 \in {DfAssign(tmp.heap, tmp.ref, "cluster",
                                     [i \in 1..Len(rows) |->
                                         ClusterKey(Val(rows[i]["lat"]),
                                                    Val(rows[i]["lon"]),
                                                    precision)])}}) :
                      tmp \in {DfCopy(tmp0.heap, tmp0.ref)}}) :
               tmp0 \in {The({DfDropna(sel.heap, sel.ref, {"lat", "lon"}) :
                           sel \in {DfColumns(h, ref,
                                       {"lat", "lon", revenue_col})}})}})

\* The possible results of aggregate_geo_clusters: [heap, agg].
AggregateGeoClusters(h, ref, precision, revenue_col) ==
    UNION {{[heap |-> g.heap, agg |-> out] : out \in SortValues(g.agg)} :
              g \in {AggregateGrouped(h, ref, precision, revenue_col)}}

(***************************************************************************)
(* Scenario: aggregate_geo_clusters called on one table at the precisions  *)
(* of AggPrecisions; aggs keeps the result of the last call per precision. *)
(***************************************************************************)
AggPrecisions == {0, 3}

\* The coordinate that is n ten-thousandths of a degree.
Coord(n) == n * Pow10(CoordScale - 4)

\* Latitudes 0.4951, 0.4995 (the double lies below the decimal: 0.499 at 3
\* digits), 0.4996 and 0.5004, longitude -66.9, and a missing coordinate.
GeoVals ==
    { <<Some(Coord(4951)), Some(Coord(-669000))>>,
      <<Some(Coord(4995)), Some(Coord(-669000))>>,
      <<Some(Coord(4996)), Some(Coord(-669000))>>,
      <<Some(Coord(5004)), Some(Coord(-669000))>>,
      <<None, Some(Coord(-669000))>>, <<Some(Coord(4996)), None>> }

RevVals == {None, Some(5)}

AggRows ==
    {[lat |-> g[1], lon |-> g[2], revenue_vta |-> r] : g \in GeoVals, r \in RevVals}

AggCols == {"lat", "lon", "revenue_vta"}

AggTables ==
    {Frame(AggCols, rows) : rows \in UNION {[1..n -> AggRows] : n \in 0..MaxRows}}
    \cup {Frame({"revenue_vta"}, <<[revenue_vta |-> Some(5)]>>)}

AggInit ==
    /\ pc = "ready"
    /\ table \in AggTables
    /\ aggs = <<>>
    /\ numMarker = NoMarker /\ numBody = None /\ numOut = None
    /\ geoVal = None /\ geoOut = None
    /\ loaded = None /\ df = None /\ filtered = None
    /\ cluster_agg = None /\ widgets = None

Aggregate(precision) ==
    /\ pc = "ready"
    /\ \E res \in AggregateGeoClusters(<<table>>, 1, precision, "revenue_vta") :
          /\ table' = res.heap[1]
          /\ aggs' = (precision :> res.agg) @@ aggs
    /\ UNCHANGED <<pc, numMarker, numBody, numOut, geoVal, geoOut,
                   loaded, df, filtered, cluster_agg, widgets>>

AggNext == \E precision \in AggPrecisions : Aggregate(precision)

SpecAgg == AggInit /\ [][AggNext]_vars

HasCoords(r) == Present(r["lat"]) /\ Present(r["lon"])

RowKey(r, precision) == ClusterKey(Val(r["lat"]), Val(r["lon"]), precision)

\* The rows of the input table that have both coordinates, by position.
CoordRows ==
    {i \in 1..Len(table.rows) :
        {"lat", "lon"} \subseteq table.cols /\ HasCoords(table.rows[i])}

\* Position of the first input row that falls in the bucket of key k.
FirstSeen(k, precision) ==
    CHOOSE i \in CoordRows :
        /\ RowKey(table.rows[i], precision) = k
        /\ \A j \in CoordRows : RowKey(table.rows[j], precision) = k => i <= j

RECURSIVE TotalRevenue(_)
TotalRevenue(agg) ==
    IF agg = <<>> THEN 0 ELSE Head(agg).revenue + TotalRevenue(Tail(agg))

\* C3: every bucket's count is the number of input records with both
\* coordinates whose rounded coordinates are the bucket's key, with or
\* without a value in the revenue column.
CountIsGroupSize ==
    \A p \in DOMAIN aggs : \A i \in 1..Len(aggs[p]) :
        aggs[p][i].count =
            Cardinality({j \in CoordRows :
                            RowKey(table.rows[j], p) = aggs[p][i].cluster})

\* C4 (as amended): the buckets are in order of revenue, largest first.
RevenueDescending ==
    \A p \in DOMAIN aggs : \A i, j \in 1..Len(aggs[p]) :
        i < j => aggs[p][i].revenue >= aggs[p][j].revenue

RevenueDescendingWitness ==
    \E p \in DOMAIN aggs : \E i, j \in 1..Len(aggs[p]) :
        i < j /\ aggs[p][i].revenue > aggs[p][j].revenue

\* C4: the buckets are in order of revenue, largest first, and buckets of
\* equal revenue are in the order in which the input first shows their keys.
TiesFirstEncountered ==
    /\ RevenueDescending
    /\ \A p \in DOMAIN aggs : \A i, j \in 1..Len(aggs[p]) :
          (i < j /\ aggs[p][i].revenue = aggs[p][j].revenue)
          => FirstSeen(aggs[p][i].cluster, p) < FirstSeen(aggs[p][j].cluster, p)

BothPrecisions == {0, 3} \subseteq DOMAIN aggs

CoarserMerges ==
    /\ Len(aggs[0]) <= Len(aggs[3])
    /\ \A i, j \in CoordRows :
          RowKey(table.rows[i], 3) = RowKey(table.rows[j], 3)
          => RowKey(table.rows[i], 0) = RowKey(table.rows[j], 0)

\* C5: precision 0 never gives more buckets than precision 3 on the same
\* table, and records that share a bucket at 3 share a bucket at 0.
CoarserNeverMoreBuckets == BothPrecisions => CoarserMerges

\* A coordinate whose rounding to 3 digits lies halfway between two integers.
Halfway(c) ==
    RoundTo(c, 3) % Pow10(CoordScale) = 5 * Pow10(CoordScale - 1)

NoHalfwayCoords ==
    \A i \in CoordRows :
        /\ ~Halfway(Val(table.rows[i]["lat"]))
        /\ ~Halfway(Val(table.rows[i]["lon"]))

\* C5 (as amended): the same, for tables in which no record with both
\* coordinates has a coordinate that rounds at 3 digits to an integer plus
\* one half.
CoarserNeverMoreBucketsOffHalfway ==
    (BothPrecisions /\ NoHalfwayCoords) => CoarserMerges

CoarserMergesWitness ==
    /\ BothPrecisions /\ NoHalfwayCoords
    /\ Len(aggs[3]) = 2 /\ Len(aggs[0]) = 1

\* C6: the revenue of all buckets together is the revenue of the records
\* that have both coordinates, a missing revenue counting as 0; records
\* missing a coordinate contribute nothing.
RevenueConserved ==
    \A p \in DOMAIN aggs :
        TotalRevenue(aggs[p]) =
            SumOf(SelectSeq2(table.rows,
                     [i \in 1..Len(table.rows) |-> i \in CoordRows], 1),
                  "revenue_vta")

RevenueConservedWitness ==
    /\ {"lat", "lon"} \subseteq table.cols
    /\ \E i \in 1..Len(table.rows) :
          ~HasCoords(table.rows[i]) /\ Present(table.rows[i]["revenue_vta"])
    /\ \E p \in DOMAIN aggs : \E b \in 1..Len(aggs[p]) :
          aggs[p][b].revenue = 10 /\ aggs[p][b].count = 2

(***************************************************************************)
(* utils.load_sales_csv, from the table pd.read_csv(path, sep=';',         *)
(* dtype=str) returns with its column names stripped: every cell a text,   *)
(* an empty cell missing.                                                  *)
(***************************************************************************)
\* A float column holds fixed-point numbers: the decimal d in units of 10^-scale.
AsFixed(d, scale) ==
    IF d = None THEN None ELSE Some(Val(d).m * Pow10(scale - Val(d).e))

DaysInMonth(yyyy, mm) ==
    IF mm \in {4, 6, 9, 11} THEN 30
    ELSE IF mm # 2 THEN 31
    ELSE IF yyyy % 4 = 0 /\ (yyyy % 100 # 0 \/ yyyy % 400 = 0) THEN 29 ELSE 28

DateLeq(a, b) ==
    \/ a[1] < b[1]
    \/ a[1] = b[1] /\ a[2] < b[2]
    \/ a[1] = b[1] /\ a[2] = b[2] /\ a[3] <= b[3]

\* The fields <<first, second, year>> of a text written as two fields of one
\* or two digits and a year of four digits, separated by "/"; missing for any
\* other text.  These texts, and texts that hold no date at all, are the
\* FechaVta cells the model covers.
DateFields(text) ==
    IF text = None THEN None
    ELSE LET parts == SplitOn(Val(text), "/")
         IN  IF /\ Len(parts) = 3
                /\ Len(parts[1]) \in 1..2 /\ AllDigits(parts[1])
                /\ Len(parts[2]) \in 1..2 /\ AllDigits(parts[2])
                /\ Len(parts[3]) = 4 /\ AllDigits(parts[3])
             THEN Some(<<DigitsValue(parts[1]), DigitsValue(parts[2]),
                         DigitsValue(parts[3])>>)
             ELSE None

IsCalendarDate(yyyy, mm, dd) ==
    yyyy >= 1 /\ mm \in 1..12 /\ dd \in 1..DaysInMonth(yyyy, mm)

\* The Timestamp of midnight of a calendar date, or NaT (errors='coerce')
\* outside what a Timestamp holds: 1677-09-21 00:12:43 to 2262-04-11 23:47:16.
AsTimestamp(yyyy, mm, dd) ==
    IF /\ IsCalendarDate(yyyy, mm, dd)
       /\ DateLeq(<<1677, 9, 22>>, <<yyyy, mm, dd>>)
       /\ DateLeq(<<yyyy, mm, dd>>, <<2262, 4, 11>>)
    THEN Some(<<yyyy, mm, dd>>) ELSE None

\* dayfirst=True is a preference: the first field is the day when it cannot be
\* a month or when the second can, and the month otherwise.
FieldOrder(f) == IF f[1] > 12 \/ f[2] <= 12 THEN "dmy" ELSE "mdy"

\* The fields read in the given order, as <<yyyy, mm, dd>>.
ReadAs(order, f) ==
    IF order = "dmy" THEN <<f[3], f[2], f[1]>> ELSE <<f[3], f[1], f[2]>>

\* One cell parsed on its own, the reading chosen from the cell.
ToDatetime(text) ==
    LET f == DateFields(text) IN
    IF f = None THEN None
    ELSE LET ymd == ReadAs(FieldOrder(Val(f)), Val(f))
         IN  AsTimestamp(ymd[1], ymd[2], ymd[3])

\* One cell parsed with the format of the column.
ToDatetimeStrict(order, text) ==
    LET f == DateFields(text) IN
    IF f = None THEN None
    ELSE LET ymd == ReadAs(order, Val(f))
         IN  AsTimestamp(ymd[1], ymd[2], ymd[3])

\* The format pandas 2 guesses from the first cell that is not missing: the
\* reading of that cell, when the cell is a calendar date; <<>> when there is
\* no such cell or no format can be guessed from it.
GuessedOrder(texts) ==
    LET present == {i \in 1..Len(texts) : Present(texts[i])} IN
    IF present = {} THEN None
    ELSE LET first == texts[CHOOSE i \in present : \A j \in present : i <= j]
             f == DateFields(first)
         IN  IF f = None THEN None
             ELSE LET order == FieldOrder(Val(f))
                      ymd == ReadAs(order, Val(f))
                  IN  IF IsCalendarDate(ymd[1], ymd[2], ymd[3])
                      THEN Some(order) ELSE None

\* pd.to_datetime(column, dayfirst=True, errors='coerce'): the columns the
\* installed pandas can return.  Every cell is parsed on its own (pandas 1,
\* and pandas 2 when it can guess no format), or every cell is parsed with
\* the format guessed from the first cell (pandas 2).
ToDatetimeColumn(texts) ==
    {SeqOf([i \in 1..Len(texts) |-> ToDatetime(texts[i])], Len(texts))}
    \cup (IF GuessedOrder(texts) = None THEN {}
          ELSE {SeqOf([i \in 1..Len(texts) |->
                          ToDatetimeStrict(Val(GuessedOrder(texts)), texts[i])],
                      Len(texts))})

DefaultGeoPrecision == 3

\* (round(r['lat'], p), round(r['lon'], p)) if both are present else (None, None)
GeoClusterOfRow(lat, lon, precision) ==
    IF Present(lat) /\ Present(lon)
    THEN <<RoundTo(Val(lat), precision), RoundTo(Val(lon), precision)>>
    ELSE <<None, None>>

LoadRow(r, fecha, geo_cluster_precision) ==
    LET num(col) == AsFixed(ToNumber(r[col]), MoneyScale)
        geo == IF Present(r["Georeferenciado"]) THEN r["Georeferenciado"]
               ELSE Some(<<>>)
        latlon == ExtractLatLon(geo)
        lat == AsFixed(latlon[1], CoordScale)
        lon == AsFixed(latlon[2], CoordScale)
        val == num("ValVentaLi")
        costo == num("Costo")
        margin == IF Present(val) /\ Present(costo)
                  THEN Some(Val(val) - Val(costo)) ELSE None
    IN  [Unidades        |-> num("Unidades"),
         VtaFacturada    |-> num("VtaFacturada"),
         Costo           |-> costo,
         ValVentaLi      |-> val,
         FechaVta_raw    |-> r["FechaVta"],
         FechaVta        |-> fecha,
         FechaVta_valid  |-> Present(fecha),
         revenue_val     |-> val,
         revenue_vta     |-> num("VtaFacturada"),
         revenue_default |-> IF Present(num("VtaFacturada"))
                             THEN num("VtaFacturada") ELSE val,
         Georeferenciado |-> r["Georeferenciado"],
         lat             |-> lat,
         lon             |-> lon,
         NombreComercial |-> r["NombreComercial"],
         DescMaterial    |-> r["DescMaterial"],
         DescGrArticulo  |-> r["DescGrArticulo"],
         Ciudad          |-> r["Ciudad"],
         ZonaVenta       |-> r["ZonaVenta"],
         cliente         |-> r["NombreComercial"],
         producto        |-> r["DescMaterial"],
         categoria       |-> r["DescGrArticulo"],
         ciudad          |-> r["Ciudad"],
         zona            |-> r["ZonaVenta"],
         geo_cluster     |-> GeoClusterOfRow(lat, lon, geo_cluster_precision),
         margin          |-> margin,
         margin_pct      |-> IF Present(margin) /\ Val(val) # 0
                             THEN Some([num |-> Val(margin), den |-> Val(val)])
                             ELSE None]

\* The tables load_sales_csv can return, one for each way the date column
\* can be parsed.
LoadSalesCsv(raw, geo_cluster_precision) ==
    {LET rows == SeqOf([i \in 1..Len(raw) |->
                           LoadRow(raw[i], fechas[i], geo_cluster_precision)],
                       Len(raw))
     IN  Frame(DOMAIN rows[1], rows) :
        fechas \in ToDatetimeColumn(SeqOf([i \in 1..Len(raw) |->
                                              raw[i]["FechaVta"]], Len(raw)))}

\* app.load_data: load_sales_csv(path), the precision left at its default.
LoadData(raw) == LoadSalesCsv(raw, DefaultGeoPrecision)

(***************************************************************************)
(* app.py, lines 63-116: one run of the script from the sidebar values w.  *)
(***************************************************************************)
MinPrecision == 0
MaxPrecision == 6

RevKey == "vta"

DfAlias(h, ref) == [heap |-> h, ref |-> ref]

\* filtered = df.copy()
WorkingCopy(h, ref) == DfCopy(h, ref)

\* if exclude_invalid_dates and 'FechaVta_valid' in filtered.columns:
\*     filtered = filtered[filtered['FechaVta_valid'] == True]
FilterValid(st, exclude_invalid_dates) ==
    The({LET f == s.heap[s.ref] IN
         IF exclude_invalid_dates /\ "FechaVta_valid" \in f.cols
         THEN DfSelect(s.heap, s.ref,
                  [i \in 1..Len(f.rows) |-> f.rows[i]["FechaVta_valid"] = TRUE])
         ELSE s : s \in {st}})

\* A comparison with NaT is False.
InDateRange(r, range) ==
    /\ Present(r["FechaVta"])
    /\ DateLeq(range[1], Val(r["FechaVta"]))
    /\ DateLeq(Val(r["FechaVta"]), range[2])

\* if date_range and ... len(date_range) == 2 and 'FechaVta' in filtered.columns:
\*     filtered = filtered[(filtered['FechaVta'] >= start) & (filtered['FechaVta'] <= end)]
FilterDateRange(st, date_range) ==
    The({LET f == s.heap[s.ref] IN
         IF Len(date_range) = 2 /\ "FechaVta" \in f.cols
         THEN DfSelect(s.heap, s.ref,
                  [i \in 1..Len(f.rows) |-> InDateRange(f.rows[i], date_range)])
         ELSE s : s \in {st}})

\* if selected: filtered = filtered[filtered[col].isin(selected)]
FilterIsin(st, selected, col) ==
    The({LET f == s.heap[s.ref] IN
         IF selected # {}
         THEN DfSelect(s.heap, s.ref,
                  [i \in 1..Len(f.rows) |-> f.rows[i][col] \in selected])
         ELSE s : s \in {st}})

ApplyFilters(h, ref, w) ==
    FilterIsin(
     FilterIsin(
      FilterIsin(
       FilterIsin(
        FilterIsin(
         FilterDateRange(
          FilterValid(WorkingCopy(h, ref), w.exclude_invalid_dates),
          w.date_range),
         w.selected_cats, "categoria"),
        w.selected_prods, "producto"),
       w.selected_clients, "cliente"),
      w.selected_ciudades, "ciudad"),
     w.selected_zonas, "zona")

RevenueColumn ==
    IF RevKey = "val" THEN "revenue_val"
    ELSE IF RevKey = "vta" THEN "revenue_vta" ELSE "revenue_default"

\* filtered['revenue_used'] = filtered[<the revenue column>]
AssignRevenueUsed(st) ==
    The({LET rows == s.heap[s.ref].rows IN
         [heap |-> DfAssign(s.heap, s.ref, "revenue_used",
                       [i \in 1..Len(rows) |-> rows[i][RevenueColumn]]),
          ref  |-> s.ref] : s \in {st}})

\* Lines 102-116: the possible outcomes [heap, filtered, cluster_agg], filtered
\* the reference `filtered` holds at the end.
ClusterStage(st, geo_precision) ==
    UNION {LET cols == s.heap[s.ref].cols IN
           IF {"lat", "lon"} \subseteq cols
           THEN UNION {{[heap |-> IF "geo_cluster" \in cols THEN res.heap
                                  ELSE DfAssign(res.heap, c.ref, "geo_cluster",
                                          [i \in 1..Len(res.heap[c.ref].rows) |-> None]),
                         filtered |-> c.ref,
                         cluster_agg |-> res.agg] :
                           res \in AggregateGeoClusters(c.heap, c.ref,
                                       geo_precision, "revenue_used")} :
                       c \in {DfCopy(s.heap, s.ref)}}
           ELSE {[heap |-> s.heap, filtered |-> s.ref, cluster_agg |-> <<>>]} :
             s \in {st}}

\* The possible outcomes of a run, heap[1] being the df object.
RunScript(loadedDf, w) ==
    ClusterStage(AssignRevenueUsed(ApplyFilters(<<loadedDf>>, 1, w)),
                 w.geo_precision)

(***************************************************************************)
(* Scenario: a CSV is loaded once, then the script runs again and again    *)
(* with sidebar values the user can select.                                *)
(***************************************************************************)
Txt(s) == Some(s)

RawA ==
    [FechaVta        |-> Txt(<<"0", "1", "/", "0", "2", "/", "2", "0", "2", "4">>),
     Unidades        |-> Txt(<<"2">>),
     VtaFacturada    |-> Txt(<<"5">>),
     Costo           |-> Txt(<<"3">>),
     ValVentaLi      |-> Txt(<<"6">>),
     Georeferenciado |-> Txt(<<"0", ".", "4", "9", "9", "6", ",",
                               "-", "6", "6", ".", "9">>),
     NombreComercial |-> "c1", DescMaterial |-> "p1", DescGrArticulo |-> "g1",
     Ciudad |-> "LP", ZonaVenta |-> "z1"]

RawB ==
    [FechaVta        |-> Txt(<<"s", "/", "f">>),
     Unidades        |-> Txt(<<"1">>),
     VtaFacturada    |-> Txt(<<"7">>),
     Costo           |-> Txt(<<"1", ",", "5">>),
     ValVentaLi      |-> Txt(<<"0">>),
     Georeferenciado |-> Txt(<<"0", ".", "5", "0", "0", "4", ",",
                               "-", "6", "6", ".", "9">>),
     NombreComercial |-> "c2", DescMaterial |-> "p1", DescGrArticulo |-> "g1",
     Ciudad |-> "LP", ZonaVenta |-> "z2"]

\* A sale dated month first, 01/13/2024.
RawC ==
    [FechaVta        |-> Txt(<<"0", "1", "/", "1", "3", "/", "2", "0", "2", "4">>),
     Unidades        |-> Txt(<<"1">>),
     VtaFacturada    |-> Txt(<<"a", "b", "c">>),
     Costo           |-> Txt(<<"2">>),
     ValVentaLi      |-> Txt(<<"4">>),
     Georeferenciado |-> None,
     NombreComercial |-> "c1", DescMaterial |-> "p2", DescGrArticulo |-> "g2",
     Ciudad |-> "SC", ZonaVenta |-> "z1"]

RawRows == {RawA, RawB, RawC}

RawTables == UNION {[1..n -> RawRows] : n \in 1..MaxAppRows}

Options(f, col) == {f.rows[i][col] : i \in 1..Len(f.rows)}

ValidDates(f) ==
    {Val(f.rows[i]["FechaVta"]) : i \in {j \in 1..Len(f.rows) :
                                            Present(f.rows[j]["FechaVta"])}}

MinDate(f) == CHOOSE d \in ValidDates(f) : \A e \in ValidDates(f) : DateLeq(d, e)

MaxDate(f) == CHOOSE d \in ValidDates(f) : \A e \in ValidDates(f) : DateLeq(e, d)

\* st.date_input: both ends picked, only the start picked, or no range at all.
DateRangeChoices(f) ==
    {<<MinDate(f), MaxDate(f)>>, <<MinDate(f), MinDate(f)>>, <<MinDate(f)>>}

\* st.multiselect: nothing, or one of the values the column holds.
PickOne(f, col, v) == {{}} \cup {{x} : x \in Options(f, col) \cap {v}}

\* st.slider: the ends of the slider and its default.
GeoPrecisionChoices == {MinPrecision, DefaultGeoPrecision, MaxPrecision}

WidgetDomains(f) ==
    [exclude_invalid_dates |-> BOOLEAN,
     date_range            |-> DateRangeChoices(f),
     selected_cats         |-> SUBSET Options(f, "categoria"),
     selected_prods        |-> PickOne(f, "producto", "p1"),
     selected_clients      |-> PickOne(f, "cliente", "c1"),
     selected_ciudades     |-> PickOne(f, "ciudad", "LP"),
     selected_zonas        |-> PickOne(f, "zona", "z1"),
     geo_precision         |-> GeoPrecisionChoices]

\* The values the widgets hold before the user touches them.
DefaultWidgets(f) ==
    [exclude_invalid_dates |-> TRUE,
     date_range            |-> <<MinDate(f), MaxDate(f)>>,
     selected_cats         |-> Options(f, "categoria"),
     selected_prods        |-> {},
     selected_clients      |-> {},
     selected_ciudades     |-> {},
     selected_zonas        |-> {},
     geo_precision         |-> DefaultGeoPrecision]

AppInit ==
    /\ pc = "loaded"
    /\ \E raw \in RawTables : \E f \in LoadData(raw) :
          /\ ValidDates(f) # {}
          /\ loaded = f
    /\ df = loaded
    /\ filtered = loaded
    /\ cluster_agg = <<>>
    /\ widgets = DefaultWidgets(loaded)
    /\ numMarker = NoMarker /\ numBody = None /\ numOut = None
    /\ geoVal = None /\ geoOut = None
    /\ table = None /\ aggs = None

\* One run of the script, df being the object the data cache hands out.
Run(w) ==
    /\ \E out \in RunScript(df, w) :
          /\ df' = out.heap[1]
          /\ filtered' = out.heap[out.filtered]
          /\ cluster_agg' = out.cluster_agg
    /\ widgets' = w
    /\ pc' = "ran"
    /\ UNCHANGED <<loaded, numMarker, numBody, numOut, geoVal, geoOut, table, aggs>>

\* The first run, when the page opens.
FirstRun ==
    /\ pc = "loaded"
    /\ Run(widgets)

\* The user changes one widget, and the script runs again.
Rerun(k, v) ==
    /\ pc = "ran"
    /\ v # widgets[k]
    /\ \E w \in {[widgets EXCEPT ![k] = v]} : Run(w)

AppNext ==
    \/ FirstRun
    \/ \E d \in {WidgetDomains(loaded)} :
          \E k \in DOMAIN d : \E v \in d[k] : Rerun(k, v)

SpecApp == AppInit /\ [][AppNext]_vars

\* The row of the loaded table that row r of the filtered table comes from.
Original(r) == RowOf(r, df.cols)

PassesSelections(r, w) ==
    /\ w.selected_cats # {} => r["categoria"] \in w.selected_cats
    /\ w.selected_prods # {} => r["producto"] \in w.selected_prods
    /\ w.selected_clients # {} => r["cliente"] \in w.selected_clients
    /\ w.selected_ciudades # {} => r["ciudad"] \in w.selected_ciudades
    /\ w.selected_zonas # {} => r["zona"] \in w.selected_zonas

NoFilterActive(w) ==
    /\ ~w.exclude_invalid_dates
    /\ Len(w.date_range) # 2
    /\ w.selected_cats = {} /\ w.selected_prods = {} /\ w.selected_clients = {}
    /\ w.selected_ciudades = {} /\ w.selected_zonas = {}

\* C7: whatever runs of the script have happened (filters, the revenue_used
\* and geo_cluster assignments, the aggregation), the table the loader
\* returned has the rows, columns and values it was loaded with, and the
\* aggregation has added no column to the table it was handed.
CanonicalTableUnchanged ==
    /\ df = loaded
    /\ "revenue_used" \notin df.cols
    /\ "cluster" \notin filtered.cols

\* A run in which no filter selects rows, so that revenue_used is assigned to
\* the working copy itself, and the aggregation has produced buckets.
CanonicalTableUnchangedWitness ==
    /\ pc = "ran"
    /\ NoFilterActive(widgets)
    /\ "revenue_used" \in filtered.cols
    /\ Len(filtered.rows) = Len(df.rows)
    /\ Len(cluster_agg) > 0

\* C9: after a run, every record of the aggregated table that has both
\* coordinates carries as geo_cluster the key of the bucket the aggregation
\* put it in, at whatever precision (0 to 6) the slider holds.
GeoClusterMatchesBucket ==
    pc = "ran" =>
        \A i \in 1..Len(filtered.rows) :
            LET r == filtered.rows[i] IN
            HasCoords(r) =>
                \E b \in 1..Len(cluster_agg) :
                    /\ cluster_agg[b].cluster = RowKey(r, widgets.geo_precision)
                    /\ r["geo_cluster"] = cluster_agg[b].cluster

\* C10: after a run with the toggle off, every loaded record that has no valid
\* sale date and passes the category, product, client, city and zone
\* selections is in the filtered table, whatever the date range.
InvalidDatesKeptWhenToggleOff ==
    (pc = "ran" /\ ~widgets.exclude_invalid_dates) =>
        \A i \in 1..Len(df.rows) :
            (~Present(df.rows[i]["FechaVta"]) /\ PassesSelections(df.rows[i], widgets))
                => \E j \in 1..Len(filtered.rows) :
                       Original(filtered.rows[j]) = df.rows[i]

=============================================================================
